---- MODULE Spec2Model ----
(***************************************************************************)
(* Model of polars-query-server/load_test/run_load_test.py: main() opens   *)
(* one httpx.AsyncClient, fans QUERIES out with asyncio.gather over        *)
(* send_query coroutines, folds the collected records into a polars        *)
(* summary (min, avg, p95, throughput), prints it and writes the records   *)
(* to load_test_summary.csv.  The asyncio event loop is modelled by its    *)
(* FIFO ready queue; the server and the clock are the environment.         *)
(***************************************************************************)
EXTENDS Integers, Sequences, FiniteSets, TLC

\* ------------------------------------------------------------------ bounds

\* Longest QUERIES list explored (the script's list has 10 entries).
MaxQueries == 2

\* Largest reading of the monotonic clock, in whole ticks.
MaxTime == 2

\* Longest list of records handed to the aggregation on its own.
MaxLen == 5

\* ------------------------------------------------------------- environment

\* Response bodies the server may send: a JSON object with "output" and
\* "cost", a JSON object with neither, and a body that is not JSON.
Bodies == {"full", "bare", "malformed"}

\* len(str(data.get("output", ""))) for a parsed body.
OutputSize(body) == IF body = "full" THEN 2 ELSE 0

\* data.get("cost") for a parsed body; "None" when the key is absent.
OutputCost(body) == IF body = "full" THEN "1" ELSE "None"

\* ------------------------------------------------- binary64 (Float64) values
\* Python floats and the polars Float64 column "duration" are IEEE-754
\* binary64, every operation rounded to nearest, ties to even.  A natural
\* number of any size is a little-endian sequence of limbs below Base without
\* leading zero limbs; a double is a kind k ("zero", "fin", "inf"), a
\* significand m of exactly SigBits bits and an exponent e, of value m * 2^e.
\* Only non-negative values occur (durations, counts, their sums and ratios).

\* Width of the binary64 significand.
SigBits == 53

\* Width of one limb of the big naturals.
LimbBits == 15
Base == 2 ^ LimbBits

Zeros(k) == [i \in 1..k |-> 0]

RECURSIVE LNorm(_)
LNorm(a) ==
    IF a = <<>> THEN <<>>
    ELSE IF a[Len(a)] # 0 THEN a
    ELSE LNorm(SubSeq(a, 1, Len(a) - 1))

RECURSIVE LFromNat(_)
LFromNat(n) == IF n = 0 THEN <<>> ELSE <<n % Base>> \o LFromNat(n \div Base)

LDigit(a, i) == IF 1 <= i /\ i <= Len(a) THEN a[i] ELSE 0

RECURSIVE LAddFrom(_, _, _, _)
LAddFrom(a, b, i, carry) ==
    IF i > Len(a) /\ i > Len(b)
    THEN IF carry = 0 THEN <<>> ELSE <<carry>>
    ELSE LET s == LDigit(a, i) + LDigit(b, i) + carry
         IN  <<s % Base>> \o LAddFrom(a, b, i + 1, s \div Base)

LAdd(a, b) == LAddFrom(a, b, 1, 0)

\* a - b for a >= b.
RECURSIVE LSubFrom(_, _, _, _)
LSubFrom(a, b, i, borrow) ==
    IF i > Len(a) THEN <<>>
    ELSE LET d == LDigit(a, i) - LDigit(b, i) - borrow
         IN  <<d % Base>> \o LSubFrom(a, b, i + 1, IF d < 0 THEN 1 ELSE 0)

LSub(a, b) == LNorm(LSubFrom(a, b, 1, 0))

RECURSIVE LLessFrom(_, _, _)
LLessFrom(a, b, i) ==
    IF i = 0 THEN FALSE
    ELSE IF a[i] # b[i] THEN a[i] < b[i]
    ELSE LLessFrom(a, b, i - 1)

LLess(a, b) ==
    IF Len(a) # Len(b) THEN Len(a) < Len(b) ELSE LLessFrom(a, b, Len(a))

\* a * k + carry for a limb-sized k.
RECURSIVE LMulFrom(_, _, _, _)
LMulFrom(a, k, i, carry) ==
    IF i > Len(a)
    THEN IF carry = 0 THEN <<>> ELSE <<carry>>
    ELSE LET p == a[i] * k + carry
         IN  <<p % Base>> \o LMulFrom(a, k, i + 1, p \div Base)

LMulSmall(a, k) == LNorm(LMulFrom(a, k, 1, 0))

\* Limbs i..1 of a divided by a limb-sized k, r carried in from above.
RECURSIVE LDivSmallFrom(_, _, _, _)
LDivSmallFrom(a, k, i, r) ==
    IF i = 0 THEN [q |-> <<>>, r |-> r]
    ELSE LET cur == r * Base + a[i]
             rest == LDivSmallFrom(a, k, i - 1, cur % k)
         IN  [q |-> rest.q \o <<cur \div k>>, r |-> rest.r]

\* a * 2^s and floor(a / 2^s).
LShl(a, s) ==
    IF a = <<>> THEN <<>>
    ELSE Zeros(s \div LimbBits) \o LMulSmall(a, 2 ^ (s % LimbBits))

LShr(a, s) ==
    LET top == SubSeq(a, s \div LimbBits + 1, Len(a))
    IN  LNorm(LDivSmallFrom(top, 2 ^ (s % LimbBits), Len(top), 0).q)

\* a mod 2^s.
LLow(a, s) ==
    LET w == s \div LimbBits
    IN  LNorm([i \in 1..(w + 1) |->
                 IF i <= w THEN LDigit(a, i)
                 ELSE LDigit(a, i) % (2 ^ (s % LimbBits))])

RECURSIVE BitLen(_)
BitLen(n) == IF n = 0 THEN 0 ELSE 1 + BitLen(n \div 2)

LBitLen(a) ==
    IF a = <<>> THEN 0 ELSE LimbBits * (Len(a) - 1) + BitLen(a[Len(a)])

LOdd(a) == a # <<>> /\ a[1] % 2 = 1

\* Largest q with q * d <= r, at or below the estimate qhat.
RECURSIVE LFixDigit(_, _, _)
LFixDigit(d, r, qhat) ==
    IF LLess(r, LMulSmall(d, qhat)) THEN LFixDigit(d, r, qhat - 1) ELSE qhat

\* One step of schoolbook division by d, whose top limb is at least Base / 2:
\* limb x of the dividend is brought down to the remainder st.r.
LDivStep(d, x, st) ==
    LET r2 == LNorm(<<x>> \o st.r)
        t == Len(d)
        est == (LDigit(r2, t + 1) * Base + LDigit(r2, t)) \div d[t]
        qd == LFixDigit(d, r2, IF est > Base - 1 THEN Base - 1 ELSE est)
    IN  [q |-> <<qd>> \o st.q, r |-> LSub(r2, LMulSmall(d, qd))]

RECURSIVE LDivFrom(_, _, _)
LDivFrom(a, d, i) ==
    IF i > Len(a) THEN [q |-> <<>>, r |-> <<>>]
    ELSE LDivStep(d, a[i], LDivFrom(a, d, i + 1))

\* Quotient and remainder of a by d (top limb of d at least Base / 2).
LDivMod(a, d) ==
    LET st == LDivFrom(a, d, 1) IN [q |-> LNorm(st.q), r |-> st.r]

FZero == [k |-> "zero", m |-> <<>>, e |-> 0]
FInf == [k |-> "inf", m |-> <<>>, e |-> 0]

\* The double nearest to b * 2^e (plus, when sticky, a non-zero amount below
\* one unit of b), ties to even.
FRound(b, e, sticky) ==
    IF b = <<>> THEN FZero
    ELSE IF LBitLen(b) <= SigBits
    THEN [k |-> "fin", m |-> LShl(b, SigBits - LBitLen(b)),
          e |-> e - (SigBits - LBitLen(b))]
    ELSE LET drop == LBitLen(b) - SigBits
             kept == LShr(b, drop)
             low == LLow(b, drop)
             half == LShl(<<1>>, drop - 1)
             up == \/ LLess(half, low)
                   \/ low = half /\ (sticky \/ LOdd(kept))
             m2 == IF up THEN LAdd(kept, <<1>>) ELSE kept
         IN  IF LBitLen(m2) > SigBits
             THEN [k |-> "fin", m |-> LShr(m2, 1), e |-> e + drop + 1]
             ELSE [k |-> "fin", m |-> m2, e |-> e + drop]

\* int -> Float64 (exact for the small integers used here).
FromNat(n) == FRound(LFromNat(n), 0, FALSE)

\* The double whose significand has the high 26 bits hi and the low 27 bits
\* lo, times 2^e.
Dbl(hi, lo, e) ==
    [k |-> "fin", m |-> LAdd(LShl(LFromNat(hi), 27), LFromNat(lo)), e |-> e]

\* x + y in binary64.
FAdd(x, y) ==
    IF x.k = "inf" \/ y.k = "inf" THEN FInf
    ELSE IF x.k = "zero" THEN y
    ELSE IF y.k = "zero" THEN x
    ELSE LET el == IF x.e < y.e THEN x.e ELSE y.e
         IN  FRound(LAdd(LShl(x.m, x.e - el), LShl(y.m, y.e - el)), el, FALSE)

\* x / y in binary64 for x, y >= 0 and not both zero; x / 0.0 is inf.
FDiv(x, y) ==
    IF y.k = "zero" \/ x.k = "inf" THEN FInf
    ELSE IF x.k = "zero" \/ y.k = "inf" THEN FZero
    ELSE LET al == LimbBits * Len(y.m) - SigBits
             sh == SigBits + 2
             d == LDivMod(LShl(x.m, sh + al), LShl(y.m, al))
         IN  FRound(d.q, x.e - sh - y.e, d.r # <<>>)

\* x < y and x <= y on non-negative doubles.
FLess(x, y) ==
    IF x.k = "inf" THEN FALSE
    ELSE IF y.k = "inf" THEN TRUE
    ELSE IF y.k = "zero" THEN FALSE
    ELSE IF x.k = "zero" THEN TRUE
    ELSE IF x.e # y.e THEN x.e < y.e
    ELSE LLess(x.m, y.m)

FLe(x, y) == ~FLess(y, x)

\* -------------------------------------------------------------- aggregation
\* The reductions of df.select([...]) over the Float64 column "duration".

\* pl.col("duration").min()
RECURSIVE Min(_)
Min(D) ==
    IF Len(D) = 1 THEN D[1]
    ELSE LET m == Min(Tail(D)) IN IF FLess(m, D[1]) THEN m ELSE D[1]

\* The column summed front to back in binary64, from 0.0.
RECURSIVE SumFrom(_, _, _)
SumFrom(D, i, acc) ==
    IF i > Len(D) THEN acc ELSE SumFrom(D, i + 1, FAdd(acc, D[i]))

Sum(D) == SumFrom(D, 1, FZero)

\* pl.col("duration").mean(): the sum over the number of values.
Mean(D) == FDiv(Sum(D), FromNat(Len(D)))

\* x inserted into the ascending sequence S.
RECURSIVE Insert(_, _)
Insert(S, x) ==
    IF S = <<>> THEN <<x>>
    ELSE IF FLess(x, S[1]) THEN <<x>> \o S
    ELSE <<S[1]>> \o Insert(Tail(S), x)

RECURSIVE Sorted(_)
Sorted(D) == IF D = <<>> THEN <<>> ELSE Insert(Sorted(Tail(D)), D[1])

\* 0-based rank polars picks for quantile 0.95 with its default
\* interpolation "nearest": (n - 1) * 0.95 rounded half away from zero.
NearestRank(n) == (95 * (n - 1) + 50) \div 100

\* pl.col("duration").quantile(0.95)
Quantile95(D) == Sorted(D)[NearestRank(Len(D)) + 1]

\* pl.count() / df["duration"].sum(): a float division, inf when the sum is 0.0.
Throughput(D) == FDiv(FromNat(Len(D)), Sum(D))

\* The one-row frame `summary`, columns in the order of the select.
Summary(D) ==
    [min |-> Min(D), avg |-> Mean(D), p95 |-> Quantile95(D),
     throughput |-> Throughput(D)]

SummaryColumns == <<"min", "avg", "p95", "throughput">>

VARIABLES
    queries,     \* QUERIES
    pc,          \* position of main()
    client,      \* httpx.AsyncClient: "none", "open", "closed"
    closing,     \* returns to the event loop main() still makes in __aexit__
    ready,       \* the event loop's ready queue of callbacks
    task,        \* one asyncio Task per send_query coroutine
    outer,       \* gather's outer future
    nfinished,   \* gather's count of finished children
    results,     \* main's local `results`
    summary,     \* main's local `summary` (empty until computed)
    launched,    \* per list position: times its coroutine was started
    observed,    \* per list position: outcomes gather took into account
    now,         \* perf_counter(), in whole ticks
    printed,     \* what print(summary) has written
    report,      \* load_test_summary.csv
    fsWritable,  \* whether the report path can be written
    raised,      \* exception main() ended with ("" when none)
    exit         \* process exit status, -1 while running

vars == <<queries, pc, client, closing, ready, task, outer, nfinished, results,
          summary, launched, observed, now, printed, report, fsWritable, raised, exit>>

N == Len(queries)
Pos == 1..N

\* -------------------------------------------------------------- send_query

\* The dict send_query returns: duration is perf_counter() - start.
Record(start, end, body) ==
    [duration |-> FromNat(end - start), size |-> OutputSize(body),
     cost |-> OutputCost(body)]

NewTask == [st |-> "scheduled", start |-> 0, resp |-> "none", rec |-> <<>>,
            exc |-> ""]

Finished(i) == task[i].st \in {"done", "failed", "cancelled"}
InFlight(i) == task[i].st \in {"in_flight", "woken"}

StepCb(i) == [kind |-> "step", i |-> i]
DoneCb(i) == [kind |-> "done", i |-> i]
MainCb == [kind |-> "main", i |-> 0]

NextCb(cb) == ready # <<>> /\ Head(ready) = cb

\* What the file held before the run.
PriorReport == [cols |-> <<"prior">>, rows |-> <<>>, writes |-> 0]

RecordColumns == <<"duration", "size", "cost">>

Init ==
    /\ queries \in {[i \in 1..n |-> "q"] : n \in 0..MaxQueries}
    /\ fsWritable \in BOOLEAN
    /\ pc = "start"
    /\ client = "none"
    /\ closing = 0
    /\ ready = <<>>
    /\ task = <<>>
    /\ outer = [st |-> "none", val |-> <<>>, exc |-> ""]
    /\ nfinished = 0
    /\ results = <<>>
    /\ summary = <<>>
    /\ launched = [i \in 1..Len(queries) |-> 0]
    /\ observed = [i \in 1..Len(queries) |-> 0]
    /\ now = 0
    /\ printed = <<>>
    /\ report = PriorReport
    /\ raised = ""
    /\ exit = -1

\* A main() that starts only the first dispatch before it waits (the later
\* ones would be started one by one, each after the one before it).
MainStartSerial ==
    /\ pc = "start"
    /\ task' = [i \in Pos |-> NewTask]
    /\ ready' = IF N = 0 THEN <<>> ELSE <<StepCb(1)>>
    /\ IF N = 0
       THEN /\ outer' = [st |-> "result", val |-> <<>>, exc |-> ""]
            /\ client' = "closed"
            /\ pc' = "aggregate"
       ELSE /\ outer' = [st |-> "pending", val |-> <<>>, exc |-> ""]
            /\ client' = "open"
            /\ pc' = "gather"
    /\ UNCHANGED <<closing, queries, nfinished, results, summary, launched, observed,
                   now, printed, report, fsWritable, raised, exit>>

\* main() up to its first suspension: the client is opened, one send_query
\* coroutine is made per entry of QUERIES and gather wraps each in a Task,
\* whose first step is queued.  gather() of nothing is already done, and
\* awaiting it does not suspend.
MainStart ==
    /\ pc = "start"
    /\ task' = [i \in Pos |-> NewTask]
    /\ ready' = [i \in Pos |-> StepCb(i)]
    /\ IF N = 0
       THEN /\ outer' = [st |-> "result", val |-> <<>>, exc |-> ""]
            /\ client' = "closed"
            /\ pc' = "aggregate"
       ELSE /\ outer' = [st |-> "pending", val |-> <<>>, exc |-> ""]
            /\ client' = "open"
            /\ pc' = "gather"
    /\ UNCHANGED <<closing, queries, nfinished, results, summary, launched, observed,
                   now, printed, report, fsWritable, raised, exit>>

\* A task finishes: its result or exception is set and gather's callback for
\* it is queued.
Finish(i, st, rec, exc) ==
    /\ task' = [task EXCEPT ![i].st = st, ![i].rec = rec, ![i].exc = exc]
    /\ ready' = Append(Tail(ready), DoneCb(i))

\* A send_query whose start instant lives in one variable shared by all
\* dispatches: taking it overwrites the start of the requests already out.
TaskStartSharedTimer(i) ==
    /\ NextCb(StepCb(i))
    /\ task[i].st = "scheduled"
    /\ launched' = [launched EXCEPT ![i] = @ + 1]
    /\ IF client = "open"
       THEN /\ task' = [j \in DOMAIN task |->
                          IF j = i
                          THEN [task[j] EXCEPT !.st = "in_flight",
                                               !.start = now]
                          ELSE [task[j] EXCEPT !.start = now]]
            /\ ready' = Tail(ready)
       ELSE Finish(i, "failed", <<>>, "RuntimeError")
    /\ UNCHANGED <<closing, queries, pc, client, outer, nfinished, results, summary,
                   observed, now, printed, report, fsWritable, raised, exit>>

\* First step of send_query: start is taken and the POST is issued on the
\* shared client, which refuses when it is closed.
TaskStart(i) ==
    /\ NextCb(StepCb(i))
    /\ task[i].st = "scheduled"
    /\ launched' = [launched EXCEPT ![i] = @ + 1]
    /\ IF client = "open"
       THEN /\ task' = [task EXCEPT ![i].st = "in_flight", ![i].start = now]
            /\ ready' = Tail(ready)
       ELSE Finish(i, "failed", <<>>, "RuntimeError")
    /\ UNCHANGED <<closing, queries, pc, client, outer, nfinished, results, summary,
                   observed, now, printed, report, fsWritable, raised, exit>>

\* The server answers request i with some body.  A response is still taken
\* while main() is inside __aexit__: the client is closed at once but the
\* pooled connections are closed one per return to the event loop, and a
\* connection not yet closed reads its response.
Respond(i, body) ==
    /\ task[i].st = "in_flight"
    /\ client = "open" \/ pc = "closing"
    /\ task' = [task EXCEPT ![i].st = "woken", ![i].resp = body]
    /\ ready' = Append(ready, StepCb(i))
    /\ UNCHANGED <<closing, queries, pc, client, outer, nfinished, results, summary,
                   launched, observed, now, printed, report, fsWritable,
                   raised, exit>>

\* Request i fails in transport (connection refused, timeout, or its
\* connection closed under it when main() has closed the client).
TransportError(i) ==
    /\ task[i].st = "in_flight"
    /\ exit = -1
    /\ task' = [task EXCEPT ![i].st = "woken", ![i].resp = "error"]
    /\ ready' = Append(ready, StepCb(i))
    /\ UNCHANGED <<closing, queries, pc, client, outer, nfinished, results, summary,
                   launched, observed, now, printed, report, fsWritable,
                   raised, exit>>

\* A send_query that appends its record to a list shared by all dispatches
\* instead of only returning it.
TaskResumeAppend(i) ==
    /\ NextCb(StepCb(i))
    /\ task[i].st = "woken"
    /\ IF task[i].resp = "error"
       THEN Finish(i, "failed", <<>>, "TransportError") /\ UNCHANGED results
       ELSE IF task[i].resp = "malformed"
       THEN Finish(i, "failed", <<>>, "JSONDecodeError") /\ UNCHANGED results
       ELSE /\ Finish(i, "done",
                      <<Record(task[i].start, now, task[i].resp)>>, "")
            /\ results' = Append(results,
                                 Record(task[i].start, now, task[i].resp))
    /\ UNCHANGED <<closing, queries, pc, client, outer, nfinished, summary,
                   launched, observed, now, printed, report, fsWritable,
                   raised, exit>>

\* send_query resumes after the await: the transport error is raised there, or
\* the duration is taken, the body parsed (a body that is not JSON raises) and
\* the record returned.
TaskResume(i) ==
    /\ NextCb(StepCb(i))
    /\ task[i].st = "woken"
    /\ IF task[i].resp = "error"
       THEN Finish(i, "failed", <<>>, "TransportError")
       ELSE IF task[i].resp = "malformed"
       THEN Finish(i, "failed", <<>>, "JSONDecodeError")
       ELSE Finish(i, "done", <<Record(task[i].start, now, task[i].resp)>>, "")
    /\ UNCHANGED <<closing, queries, pc, client, outer, nfinished, results, summary,
                   launched, observed, now, printed, report, fsWritable,
                   raised, exit>>

\* The records of the children that have returned so far, in argument order.
RECURSIVE DoneRecords(_, _)
DoneRecords(t, i) ==
    IF i > Len(t) THEN <<>>
    ELSE (IF t[i].st = "done" THEN t[i].rec ELSE <<>>) \o DoneRecords(t, i + 1)

\* A gather that resolves as soon as one child has returned, with the records
\* there are at that moment (asyncio.wait(..., return_when=FIRST_COMPLETED)
\* in place of gather).
GatherDoneFirst(i) ==
    /\ NextCb(DoneCb(i))
    /\ nfinished' = nfinished + 1
    /\ IF outer.st # "pending"
       THEN /\ ready' = Tail(ready)
            /\ UNCHANGED <<outer, observed>>
       ELSE /\ observed' = [observed EXCEPT ![i] = @ + 1]
            /\ ready' = Append(Tail(ready), MainCb)
            /\ IF task[i].st # "done"
               THEN outer' = [st |-> "exception", val |-> <<>>,
                              exc |-> task[i].exc]
               ELSE outer' = [st |-> "result", val |-> DoneRecords(task, 1),
                              exc |-> ""]
    /\ UNCHANGED <<closing, queries, pc, client, task, results, summary, launched, now,
                   printed, report, fsWritable, raised, exit>>

\* A gather that collects the records in the order in which the children
\* finish (as a loop over asyncio.as_completed would).
GatherDoneCompletionOrder(i) ==
    /\ NextCb(DoneCb(i))
    /\ nfinished' = nfinished + 1
    /\ IF outer.st # "pending"
       THEN /\ ready' = Tail(ready)
            /\ UNCHANGED <<outer, observed>>
       ELSE /\ observed' = [observed EXCEPT ![i] = @ + 1]
            /\ IF task[i].st # "done"
               THEN /\ outer' = [st |-> "exception", val |-> <<>>,
                                 exc |-> task[i].exc]
                    /\ ready' = Append(Tail(ready), MainCb)
               ELSE IF nfinished + 1 = N
               THEN /\ outer' = [st |-> "result",
                                 val |-> Append(outer.val, task[i].rec[1]),
                                 exc |-> ""]
                    /\ ready' = Append(Tail(ready), MainCb)
               ELSE /\ outer' = [outer EXCEPT
                                   !.val = Append(@, task[i].rec[1])]
                    /\ ready' = Tail(ready)
    /\ UNCHANGED <<closing, queries, pc, client, task, results, summary, launched, now,
                   printed, report, fsWritable, raised, exit>>

\* gather's _done_callback for child i (return_exceptions is False): once the
\* outer future is done nothing more is taken; the first exception is set on
\* the outer future at once; the results, in argument order, are set when the
\* last child has finished.
GatherDone(i) ==
    /\ NextCb(DoneCb(i))
    /\ nfinished' = nfinished + 1
    /\ IF outer.st # "pending"
       THEN /\ ready' = Tail(ready)
            /\ UNCHANGED <<outer, observed>>
       ELSE /\ observed' = [observed EXCEPT ![i] = @ + 1]
            /\ IF task[i].st # "done"
               THEN /\ outer' = [st |-> "exception", val |-> <<>>,
                                 exc |-> task[i].exc]
                    /\ ready' = Append(Tail(ready), MainCb)
               ELSE IF nfinished + 1 = N
               THEN /\ outer' = [st |-> "result",
                                 val |-> [j \in Pos |-> task[j].rec[1]],
                                 exc |-> ""]
                    /\ ready' = Append(Tail(ready), MainCb)
               ELSE /\ ready' = Tail(ready)
                    /\ UNCHANGED outer
    /\ UNCHANGED <<closing, queries, pc, client, task, results, summary, launched, now,
                   printed, report, fsWritable, raised, exit>>

\* How often main() returns to the event loop in AsyncClient.__aexit__ when
\* it is woken at pc: once per connection the pool still has to close (any
\* number up to N, by the transport), then the number that is left.
Yields == IF pc = "gather" THEN 0..N ELSE {closing}

\* main() is inside the exit of `async with` (line 22) with k returns to the
\* event loop to go: the client is closed, main() is queued again.
Closing(k) ==
    /\ k > 0
    /\ closing' = k - 1
    /\ pc' = "closing"
    /\ ready' = Append(Tail(ready), MainCb)
    /\ UNCHANGED <<results, raised>>

\* A main() that loses the last record of the collected list (a slice that
\* ends one short) before the frame is built.
MainResumeDropLast ==
    /\ NextCb(MainCb)
    /\ pc \in {"gather", "closing"}
    /\ client' = "closed"
    /\ \E k \in Yields :
         \/ Closing(k)
         \/ /\ k = 0
            /\ closing' = 0
            /\ ready' = Tail(ready)
            /\ IF outer.st = "result"
               THEN /\ results' = SubSeq(outer.val, 1, Len(outer.val) - 1)
                    /\ pc' = "aggregate"
                    /\ UNCHANGED raised
               ELSE /\ raised' = outer.exc
                    /\ pc' = "raised"
                    /\ UNCHANGED results
    /\ UNCHANGED <<queries, task, outer, nfinished, summary, launched, observed,
                   now, printed, report, fsWritable, exit>>

\* A main() that catches the exception of the gather and goes on with the
\* records of the dispatches that have returned.
MainResumeFailSoft ==
    /\ NextCb(MainCb)
    /\ pc \in {"gather", "closing"}
    /\ client' = "closed"
    /\ \E k \in Yields :
         \/ Closing(k)
         \/ /\ k = 0
            /\ closing' = 0
            /\ ready' = Tail(ready)
            /\ results' = IF outer.st = "result" THEN outer.val
                          ELSE DoneRecords(task, 1)
            /\ pc' = "aggregate"
            /\ UNCHANGED raised
    /\ UNCHANGED <<queries, task, outer, nfinished, summary, launched, observed,
                   now, printed, report, fsWritable, exit>>

\* main() is woken from `await asyncio.gather(...)` and leaves the async
\* with block: the client is closed at once, main() returns to the event
\* loop while __aexit__ closes the pooled connections (other callbacks run
\* in between), and then goes on with the list bound to results, or with
\* the exception propagating out of main().
MainResume ==
    /\ NextCb(MainCb)
    /\ pc \in {"gather", "closing"}
    /\ client' = "closed"
    /\ \E k \in Yields :
         \/ Closing(k)
         \/ /\ k = 0
            /\ closing' = 0
            /\ ready' = Tail(ready)
            /\ IF outer.st = "result"
               THEN /\ results' = outer.val
                    /\ pc' = "aggregate"
                    /\ UNCHANGED raised
               ELSE /\ raised' = outer.exc
                    /\ pc' = "raised"
                    /\ UNCHANGED results
    /\ UNCHANGED <<queries, task, outer, nfinished, summary, launched, observed,
                   now, printed, report, fsWritable, exit>>

\* The Float64 column "duration" of pl.DataFrame(results).
DurationColumn(rs) == [i \in 1..Len(rs) |-> rs[i].duration]

\* df = pl.DataFrame(results); summary = df.select([...]).  A frame built
\* from no records has no column "duration": df["duration"] raises.
Aggregate ==
    /\ pc = "aggregate"
    /\ IF results = <<>>
       THEN /\ raised' = "ColumnNotFoundError"
            /\ pc' = "raised"
            /\ UNCHANGED summary
       ELSE /\ summary' = <<Summary(DurationColumn(results))>>
            /\ pc' = "print"
            /\ UNCHANGED raised
    /\ UNCHANGED <<closing, queries, client, ready, task, outer, nfinished, results,
                   launched, observed, now, printed, report, fsWritable, exit>>

\* print(summary)
PrintSummary ==
    /\ pc = "print"
    /\ printed' = Append(printed, summary[1])
    /\ pc' = "write"
    /\ UNCHANGED <<closing, queries, client, ready, task, outer, nfinished, results,
                   summary, launched, observed, now, report, fsWritable,
                   raised, exit>>

\* A write whose failure is caught and dropped (try: ... except OSError: pass).
WriteCsvSwallow ==
    /\ pc = "write"
    /\ IF fsWritable
       THEN report' = [cols |-> RecordColumns, rows |-> results,
                       writes |-> report.writes + 1]
       ELSE UNCHANGED report
    /\ pc' = "done"
    /\ UNCHANGED <<closing, queries, client, ready, task, outer, nfinished, results,
                   summary, launched, observed, now, printed, fsWritable,
                   raised, exit>>

\* df.write_csv(Path("load_test_summary.csv")): the frame of records replaces
\* the file, or the write raises.
WriteCsv ==
    /\ pc = "write"
    /\ IF fsWritable
       THEN /\ report' = [cols |-> RecordColumns, rows |-> results,
                          writes |-> report.writes + 1]
            /\ pc' = "done"
            /\ UNCHANGED raised
       ELSE /\ raised' = "OSError"
            /\ pc' = "raised"
            /\ UNCHANGED report
    /\ UNCHANGED <<closing, queries, client, ready, task, outer, nfinished, results,
                   summary, launched, observed, now, printed, fsWritable, exit>>

\* asyncio.run() after main() ended: tasks still pending are cancelled and
\* the loop is run until they have finished, so that gather's callback runs
\* for each of them and for each child whose callback was still queued (the
\* gather future is done: the callback only counts); the loop is closed and
\* the interpreter exits with 0, or with 1 after the traceback of an
\* exception that left main().
Shutdown ==
    /\ pc \in {"done", "raised"}
    /\ exit = -1
    /\ task' = [i \in Pos |->
                  IF Finished(i) THEN task[i]
                  ELSE [task[i] EXCEPT !.st = "cancelled",
                                       !.exc = "CancelledError"]]
    /\ nfinished' = nfinished
                     + Cardinality({i \in Pos : ~Finished(i)})
                     + Cardinality({j \in DOMAIN ready :
                                       ready[j].kind = "done"})
    /\ ready' = <<>>
    /\ exit' = IF pc = "done" THEN 0 ELSE 1
    /\ UNCHANGED <<closing, queries, pc, client, outer, results, summary,
                   launched, observed, now, printed, report, fsWritable, raised>>

\* Time passes, at any moment of the run (the clock is read by send_query).
Tick ==
    /\ exit = -1
    /\ now < MaxTime
    /\ now' = now + 1
    /\ UNCHANGED <<closing, queries, pc, client, ready, task, outer, nfinished, results,
                   summary, launched, observed, printed, report, fsWritable,
                   raised, exit>>

Next ==
    \/ MainStart
    \/ \E i \in DOMAIN task : TaskStart(i)
    \/ \E i \in DOMAIN task : \E body \in Bodies : Respond(i, body)
    \/ \E i \in DOMAIN task : TransportError(i)
    \/ \E i \in DOMAIN task : TaskResume(i)
    \/ \E i \in DOMAIN task : GatherDone(i)
    \/ MainResume
    \/ Aggregate
    \/ PrintSummary
    \/ WriteCsv
    \/ Shutdown
    \/ Tick

Spec == Init /\ [][Next]_vars

\* ------------------------------------------- the aggregation on its own
\* main() from line 25 on, entered with any list of records whose durations
\* are the doubles nearest 0.1, 0.2, 0.3, 0.4 and 0.5 (seconds).

D01 == Dbl(53687091, 26843546, -56)
D02 == Dbl(53687091, 26843546, -55)
D03 == Dbl(40265318, 53687091, -54)
D04 == Dbl(53687091, 26843546, -54)
D05 == Dbl(33554432, 0, -53)

Durations == {D01, D02, D03, D04, D05}

RECURSIVE Seqs(_, _)
Seqs(S, n) ==
    IF n = 0 THEN {<<>>}
    ELSE {<<x>> \o t : x \in S, t \in Seqs(S, n - 1)}

DoneTask(rec) == [st |-> "done", start |-> 0, resp |-> "full", rec |-> <<rec>>,
                  exc |-> ""]

AggInit ==
    /\ \E n \in 1..MaxLen : \E D \in Seqs(Durations, n) :
         /\ results = [i \in 1..n |->
                         [duration |-> D[i], size |-> OutputSize("full"),
                          cost |-> OutputCost("full")]]
         /\ queries = [i \in 1..n |-> "q"]
    /\ fsWritable \in BOOLEAN
    /\ pc = "aggregate"
    /\ client = "closed"
    /\ closing = 0
    /\ ready = <<>>
    /\ task = [i \in 1..Len(results) |-> DoneTask(results[i])]
    /\ outer = [st |-> "result", val |-> results, exc |-> ""]
    /\ nfinished = Len(results)
    /\ summary = <<>>
    /\ launched = [i \in 1..Len(results) |-> 1]
    /\ observed = [i \in 1..Len(results) |-> 1]
    /\ now = MaxTime
    /\ printed = <<>>
    /\ report = PriorReport
    /\ raised = ""
    /\ exit = -1

NextAgg == Aggregate \/ PrintSummary \/ WriteCsv \/ Shutdown

SpecAgg == AggInit /\ [][NextAgg]_vars

\* ------------------------------------------------------------ properties

\* main() has got past `await asyncio.gather(...)` and reached line 25.
Aggregating ==
    \/ pc \in {"aggregate", "print", "write", "done"}
    \/ pc = "raised" /\ raised \in {"ColumnNotFoundError", "OSError"}

\* Line 25 and the select have been run (or have raised).
Aggregated ==
    \/ pc \in {"print", "write", "done"}
    \/ pc = "raised" /\ raised \in {"ColumnNotFoundError", "OSError"}

DispatchErrors == {"TransportError", "JSONDecodeError", "RuntimeError"}

NumFailed == Cardinality({i \in DOMAIN task : task[i].st = "failed"})
NumDone == Cardinality({i \in DOMAIN task : task[i].st = "done"})

\* C1: the aggregation starts only after all N launched send_query dispatches
\* have completed: in no reachable state has main() reached the aggregation
\* while a dispatch is unstarted, in flight or woken but not yet resumed.
C1_AggregationAfterAllDispatches ==
    Aggregating =>
        /\ DOMAIN task = Pos
        /\ \A i \in Pos : task[i].st \in {"done", "failed"}

\* Two dispatches were answered at different times and the summary was made.
C1_Witness ==
    /\ pc = "print"
    /\ N = 2
    /\ results[1].duration # results[2].duration

\* C2: whenever the aggregator runs, the number of records it consumes is
\* exactly len(QUERIES), never a strict subset of the dispatched queries.
C2_AggregatesAllRecords ==
    Aggregating => Len(results) = N

\* A full run over the longest list: every record reached the written frame.
C2_Witness ==
    /\ pc = "done"
    /\ N = MaxQueries
    /\ Len(report.rows) = N

\* C3: if dispatches fail, the coordinator still waits for every one of the N
\* dispatches and collects all N outcomes: when main() leaves the gather,
\* every dispatch has completed and its outcome has been taken by gather.
C3_WaitsForAllOutcomes ==
    pc \notin {"start", "gather"} =>
        \A i \in Pos : task[i].st \in {"done", "failed"} /\ observed[i] = 1

\* C4: a transport failure or malformed body of one dispatch never leaves the
\* gather in main() as the exception the process dies of, and never keeps
\* another dispatch from completing (no dispatch ends cancelled).
C4_FailureIsolated ==
    /\ raised \notin DispatchErrors
    /\ \A i \in DOMAIN task : task[i].st # "cancelled"

\* C5: when k of N dispatches fail with 0 < k < N, the run ends with the
\* aggregator having run on exactly the N - k successful records, a summary
\* printed and a non-zero exit status.
C5_PartialFailureAggregated ==
    (exit # -1 /\ 0 < NumFailed /\ NumFailed < N) =>
        /\ Len(results) = N - NumFailed
        /\ printed # <<>>
        /\ exit # 0

\* C6: one dispatch is launched per list position and none twice; by the end
\* of the run each launched dispatch's completion has been observed by the
\* coordinator exactly once, with one record per successful dispatch.
C6_ExactlyOnce ==
    /\ \A i \in Pos : launched[i] <= 1
    /\ exit # -1 =>
          /\ \A i \in Pos : launched[i] = 1 /\ observed[i] = 1
          /\ Len(results) = NumDone

\* C7: full fan-out.  While some request is still to be issued no dispatch
\* has finished and no outcome has been taken by the coordinator (issuing
\* never waits for a response), and when every dispatch of the batch has
\* succeeded and main() is past the async with block there are exactly N
\* records.
C7_FullFanOut ==
    /\ \A j \in DOMAIN task :
          task[j].st = "scheduled" =>
              \A i \in DOMAIN task : ~Finished(i) /\ observed[i] = 0
    /\ (pc \notin {"start", "gather", "closing"} /\ N > 0 /\ NumDone = N) =>
          Len(results) = N

\* All requests of the longest list are in flight at the same time.
C7_Witness ==
    /\ N = MaxQueries
    /\ DOMAIN task = Pos
    /\ \A i \in Pos : task[i].st = "in_flight"

\* The largest of the durations D.
RECURSIVE Max(_)
Max(D) ==
    IF Len(D) = 1 THEN D[1]
    ELSE LET m == Max(Tail(D)) IN IF FLess(D[1], m) THEN m ELSE D[1]

\* The records are none, or their durations add up to 0.0.
EmptyInput ==
    results = <<>> \/ Sum(DurationColumn(results)).k = "zero"

\* C8: aggregating no records, or records of zero total duration, signals an
\* error instead of a throughput from a division by zero: the run ends with
\* no summary made, a non-zero exit status and no report written.
C8_EmptyInputError ==
    (exit # -1 /\ Aggregated /\ EmptyInput) =>
        /\ summary = <<>>
        /\ raised # ""
        /\ report.writes = 0
        /\ exit # 0

\* C9: p95 is the linear interpolation between the two sorted durations
\* around rank 0.95 * (n - 1): the element itself when the rank is a whole
\* number, and otherwise, when the two neighbours differ, a value strictly
\* between them (for 0.1 .. 0.5: between 0.4 and 0.5, namely 0.48).
C9_LinearInterpolation ==
    summary # <<>> =>
        LET S == Sorted(DurationColumn(results))
            r == 95 * (Len(S) - 1)
            lo == S[r \div 100 + 1]
            hi == S[IF r % 100 = 0 THEN r \div 100 + 1 ELSE r \div 100 + 2]
        IN  /\ r % 100 = 0 => summary[1].p95 = lo
            /\ (r % 100 # 0 /\ FLess(lo, hi)) =>
                   FLess(lo, summary[1].p95) /\ FLess(summary[1].p95, hi)

\* C10: for every non-empty list of durations D the summary satisfies
\* min(D) <= mean(D) <= max(D) and min(D) <= p95(D) <= max(D).
C10_WithinMinMax ==
    summary # <<>> =>
        LET D == DurationColumn(results)
            sm == summary[1]
        IN  /\ FLe(sm.min, sm.avg) /\ FLe(sm.avg, Max(D))
            /\ FLe(sm.min, sm.p95) /\ FLe(sm.p95, Max(D))

\* The list D with the elements at positions i and i + 1 exchanged.
SwapAdjacent(D, i) ==
    [j \in 1..Len(D) |-> IF j = i THEN D[i + 1] ELSE IF j = i + 1 THEN D[i]
                         ELSE D[j]]

\* C11: the summary depends only on the multiset of durations: exchanging
\* any two neighbouring records before the aggregation (and so, by repeated
\* exchanges, any permutation of the records) gives the identical summary.
C11_OrderIndependent ==
    summary # <<>> =>
        LET D == DurationColumn(results)
        IN  \A i \in 1..(Len(D) - 1) :
                Summary(SwapAdjacent(D, i)) = summary[1]

\* C12: after a successful run the report file holds exactly one row, the
\* summary, under the columns min, mean, p95, throughput in that order, in
\* place of what the file held before.
C12_ReportIsSummaryRow ==
    (exit = 0) =>
        /\ report.writes > 0
        /\ report.cols = <<"min", "mean", "p95", "throughput">>
        /\ Len(report.rows) = 1
        /\ summary # <<>>
        /\ report.rows[1] = <<summary[1].min, summary[1].avg, summary[1].p95,
                              summary[1].throughput>>

\* C13: every dispatch failure of a run is taken by the coordinator: at the
\* end of the run each dispatch that raised has had its exception passed to
\* main() through the gather, also when it failed after another one had.
C13_EveryFailureCounted ==
    (exit # -1) =>
        \A i \in DOMAIN task : task[i].st = "failed" => observed[i] = 1

\* Request i was issued and no response to it ever arrived.
NeverAnswered(i) ==
    /\ launched[i] = 1
    /\ task[i].resp \in {"none", "error"}

\* C14: a request that never receives a response is abandoned by its own
\* timeout and counts as a failed dispatch (it is not left in flight until
\* the process is torn down), and it keeps no other dispatch from
\* completing: at the end of the run no other dispatch has been cancelled.
C14_HungRequestAbandoned ==
    (exit # -1) =>
        \A i \in DOMAIN task :
            NeverAnswered(i) =>
                /\ task[i].st = "failed"
                /\ \A j \in DOMAIN task \ {i} : task[j].st # "cancelled"

\* What one step does to the timing of dispatch i.
OwnTiming(i) ==
    /\ (task[i].st = "scheduled" /\ task'[i].st = "in_flight") =>
           task'[i].start = now
    /\ (InFlight(i) /\ ~Finished(i)') => task'[i].start = task[i].start
    /\ (task[i].st # "done" /\ task'[i].st = "done") =>
           /\ task[i].st = "woken"
           /\ task[i].resp \in Bodies
           /\ task[i].start <= now
           /\ task'[i].rec[1].duration = FromNat(now - task[i].start)
           /\ FLe(FZero, task'[i].rec[1].duration)

\* C15: the start of a dispatch is the clock at the step that issues its
\* request and no other step changes it while the request is out; its
\* record is made after its response has arrived, with the duration the
\* clock at that step minus its own start, which is never negative.
C15_OwnTimer ==
    [][\A i \in DOMAIN task : i \in DOMAIN task' => OwnTiming(i)]_vars

\* Two requests issued at different instants have both been answered, with
\* different durations.
C15_Witness ==
    /\ N = 2
    /\ DOMAIN task = Pos
    /\ \A i \in Pos : task[i].st = "done"
    /\ task[1].start # task[2].start
    /\ task[1].rec[1].duration # task[2].rec[1].duration

\* This step is a step of the send_query coroutine of dispatch i (its first
\* step, or its resumption after the await).
DispatchStep(i) ==
    /\ task[i].st \in {"scheduled", "woken"}
    /\ task'[i].st \in {"in_flight", "done", "failed"}

\* C16: a step of a send_query dispatch changes its own task (its timer and
\* its record) and nothing that is shared: not another dispatch's task, not
\* the collected results, the gather future, the client, the summary or the
\* report; and the collected results are written only by main(), when it
\* resumes from the gather.
C16_NoSharedWrites ==
    [][/\ \A i \in DOMAIN task :
             (i \in DOMAIN task' /\ DispatchStep(i)) =>
                 /\ \A j \in DOMAIN task \ {i} : task'[j] = task[j]
                 /\ UNCHANGED <<closing, queries, pc, client, outer, nfinished,
                                results, summary, now, printed, report,
                                raised, exit>>
       /\ results' # results =>
             /\ pc \in {"gather", "closing"} /\ pc' = "aggregate"
             /\ \A i \in DOMAIN task : task'[i] = task[i]]_vars

\* Both dispatches have returned their records and main() has bound the
\* list of them to results.
C16_Witness ==
    /\ pc = "aggregate"
    /\ N = 2
    /\ results = <<task[1].rec[1], task[2].rec[1]>>

\* C17: a report write that fails is surfaced as the exception main() ends
\* with and the exit status is then not 0, and that happens only once the
\* summary has been computed; the exit status is 0 only if the aggregation
\* made a summary and the report was written.
C17_WriteFailureSurfaced ==
    /\ raised = "OSError" => summary # <<>> /\ printed # <<>>
    /\ (exit # -1 /\ raised = "OSError") => exit # 0 /\ report = PriorReport
    /\ (exit # -1 /\ ~fsWritable /\ Len(summary) = 1) => raised = "OSError"
    /\ exit = 0 =>
          /\ raised = ""
          /\ Len(summary) = 1
          /\ summary[1] = Summary(DurationColumn(results))
          /\ report.writes = 1
          /\ report.rows = results

\* The run ended with status 1 because the report could not be written.
C17_Witness ==
    /\ exit = 1
    /\ raised = "OSError"
    /\ Len(summary) = 1

\* C18: when all dispatches have succeeded, the i-th element of the list
\* main() collects is the record returned by the dispatch of the i-th
\* query, in whatever order the responses arrived.
C18_ResultsInQueryOrder ==
    (Aggregating /\ N > 0) =>
        /\ Len(results) = N
        /\ \A i \in Pos : results[i] = task[i].rec[1]

\* Two requests were issued at the same instant and the second was answered
\* before the first.
C18_Witness ==
    /\ pc = "aggregate"
    /\ N = 2
    /\ task[1].start = task[2].start
    /\ FLess(results[2].duration, results[1].duration)

\* C19: the shared client is never closed while a dispatch that uses it is
\* still to be issued or in flight: whenever the client is closed, every one
\* of the N launched dispatches has completed, also in runs where a dispatch
\* fails.
C19_ClientOutlivesDispatches ==
    client = "closed" =>
        /\ DOMAIN task = Pos
        /\ \A i \in Pos : task[i].st \in {"done", "failed"}

\* C20: once a send_query dispatch has raised, main() makes and prints no
\* summary and does not write load_test_summary.csv, which keeps its prior
\* content, and the run ends with that kind of exception leaving main();
\* in every run the file is written at most once, and only after the
\* summary has been printed.
C20_FailureLeavesReportUntouched ==
    /\ NumFailed > 0 =>
          /\ pc \in {"gather", "closing", "raised"}
          /\ summary = <<>>
          /\ printed = <<>>
          /\ report = PriorReport
    /\ (exit # -1 /\ NumFailed > 0) => raised \in DispatchErrors /\ exit = 1
    /\ report.writes <= 1
    /\ report.writes = 1 => Len(printed) = 1 /\ printed[1] = summary[1]

\* One dispatch returned a record, another raised, and the run has ended
\* with the writable report file untouched.
C20_Witness ==
    /\ exit = 1
    /\ fsWritable
    /\ NumFailed > 0
    /\ NumDone > 0
    /\ report = PriorReport

====
